---- MODULE Spec2Model ----
(***************************************************************************)
(* The renew command of lego (cmd/cmd_renew.go): one run of renew, which   *)
(* dispatches to renewForDomains or renewForCSR.  Each collaborator call   *)
(* and each blocking sleep of the two functions is one step.  Time is      *)
(* counted in minutes.                                                     *)
(***************************************************************************)
EXTENDS Integers, Sequences, FiniteSets, TLC

\* ------------------------------------------------------------------ bounds

\* the wall clock drifts by itself (Tick) up to this instant
MaxClock == 2
\* the suggested window's start and end lie in -MaxWin .. MaxWin
MaxWin == 2
\* --ari-wait-to-renew-duration ranges over 0 .. MaxWait
MaxWait == 1
\* --days ranges over -1 .. MaxDays
MaxDays == 1
\* the stored leaf expires between day -1 and day MaxCertDays
MaxCertDays == 2
\* ShouldRenewAt on its own: willingToSleep ranges over 0 .. MaxWilling
MaxWilling == 2
\* merge on its own: lists of up to MaxLen names
MaxLen == 3

\* ------------------------------------------------------- program constants

\* needRenewal: time.Until(NotAfter).Hours() / 24.0, in minutes
Day == 1440
\* const jitter = 8 * time.Minute
jitter == 8

\* ------------------------------------------------------------------ values

\* a nil pointer
Nil == <<>>
\* a non-nil *time.Time pointing at instant t
Ptr(t) == <<t>>
Deref(p) == p[1]

renewEnvAccountEmail == "LEGO_ACCOUNT_EMAIL"
renewEnvCertDomain == "LEGO_CERT_DOMAIN"
renewEnvCertPath == "LEGO_CERT_PATH"
renewEnvCertKeyPath == "LEGO_CERT_KEY_PATH"
renewEnvCertPEMPath == "LEGO_CERT_PEM_PATH"
renewEnvCertPFXPath == "LEGO_CERT_PFX_PATH"

\* the common names a CSR file can carry
Names == {"a", "b"}
\* the lists the --domains flag can hold (never empty: createRenew's Before);
\* a run takes one list, merge is called on all lists on its own
DomainLists == {<<"b", "a">>}
\* the lists certcrypto.ExtractDomains can find in the stored leaf
CertDomainLists == {<<"a">>, <<"a", "c">>}
\* --ari-hash-name
HashName == "SHA-256"

VARIABLES
    ctx,            \* the flags of the command line (cli.Context)
    isTerminal,     \* isatty.IsTerminal(os.Stdout.Fd())
    clock,          \* time.Now()
    pc,             \* the position of the run
    domain,         \* domains[0], or the CSR's common name
    certificates,   \* the chain ReadCertificate returned
    ariRenewalTime, \* var ariRenewalTime *time.Time
    renewalInfo,    \* what GetRenewalInfo returned
    request,        \* the request handed to Obtain / ObtainForCSR
    certRes,        \* the resource Obtain / ObtainForCSR returned
    saved,          \* the resource SaveResource has stored
    meta,           \* the Renewal Metadata map
    calls,          \* the collaborator calls of the run, in order
    outcome,        \* "running", "fatal" (log.Fatal), or the error returned
    fn              \* a pure function called on its own: inputs and result

vars == <<ctx, isTerminal, clock, pc, domain, certificates, ariRenewalTime,
          renewalInfo, request, certRes, saved, meta, calls, outcome, fn>>

\* ------------------------------------------------------- pure functions

\* int(x / y) of Go: truncation toward zero
TruncDiv(x, y) == IF x >= 0 THEN x \div y ELSE -((-x) \div y)

\* a merge that appends every requested name
mergeAppendAll(prevDomains, nextDomains) == prevDomains \o nextDomains

\* a merge that looks a name up in the certificate's names only
mergeAgainstCertificate(prevDomains, nextDomains) ==
    prevDomains \o SelectSeq(nextDomains,
        LAMBDA next : \A i \in 1 .. Len(prevDomains) : prevDomains[i] /= next)

\* merge(prevDomains, nextDomains)
RECURSIVE merge(_, _)
merge(prevDomains, nextDomains) ==
    IF nextDomains = <<>> THEN prevDomains
    ELSE LET next == Head(nextDomains)
             found == \E i \in 1..Len(prevDomains) : prevDomains[i] = next
         IN merge(IF found THEN prevDomains ELSE Append(prevDomains, next),
                  Tail(nextDomains))

\* an expiry rule that renews only below the threshold
needRenewalStrict(x509Cert, now, days) ==
    IF x509Cert.IsCA THEN "fatal"
    ELSE IF days >= 0
         THEN LET notAfter == TruncDiv(x509Cert.NotAfter - now, Day)
              IN IF notAfter >= days THEN "no renewal" ELSE "renew"
         ELSE "renew"

\* an expiry rule that does not look at the leaf's CA flag
needRenewalAnyLeaf(x509Cert, now, days) ==
    IF days >= 0
    THEN LET notAfter == TruncDiv(x509Cert.NotAfter - now, Day)
         IN IF notAfter > days THEN "no renewal" ELSE "renew"
    ELSE "renew"

\* needRenewal(x509Cert, domain, days) called at instant now:
\* "fatal" is log.Fatalf, "no renewal" is false, "renew" is true
needRenewal(x509Cert, now, days) ==
    IF x509Cert.IsCA THEN "fatal"
    ELSE IF days >= 0
         THEN LET notAfter == TruncDiv(x509Cert.NotAfter - now, Day)
              IN IF notAfter > days THEN "no renewal" ELSE "renew"
         ELSE "renew"

\* RenewalInfoResponse.ShouldRenewAt(now, willingToSleep), with its random
\* draw rt given: rt lies in the normalised window
WindowLo(w) == IF w.Start <= w.End THEN w.Start ELSE w.End
WindowHi(w) == IF w.Start <= w.End THEN w.End ELSE w.Start
Draws(w) == IF WindowLo(w) = WindowHi(w) THEN {WindowLo(w)}
            ELSE WindowLo(w) .. (WindowHi(w) - 1)
\* an evaluator that returns a past draw itself
ShouldRenewAtDraw(rt, now, willingToSleep) ==
    IF rt <= now THEN Ptr(rt)
    ELSE IF rt > now + willingToSleep THEN Nil
    ELSE Ptr(rt)
\* an evaluator that ignores how long the caller is willing to sleep
ShouldRenewAtAnyWait(rt, now, willingToSleep) ==
    IF rt <= now THEN Ptr(now) ELSE Ptr(rt)
\* an evaluator that never lets the caller wait
ShouldRenewAtNeverWait(rt, now, willingToSleep) ==
    IF rt <= now THEN Ptr(now) ELSE Nil
\* an evaluator whose wait budget is one instant short
ShouldRenewAtShortBudget(rt, now, willingToSleep) ==
    IF rt <= now THEN Ptr(now)
    ELSE IF rt >= now + willingToSleep THEN Nil
    ELSE Ptr(rt)
ShouldRenewAt(rt, now, willingToSleep) ==
    IF rt <= now THEN Ptr(now)
    ELSE IF rt > now + willingToSleep THEN Nil
    ELSE Ptr(rt)

\* ------------------------------------------------------------ initial state

Flags == [csr : BOOLEAN, domains : DomainLists \cup {<<>>},
          days : -1 .. MaxDays, ari_enable : BOOLEAN, ari_wait : 0 .. MaxWait,
          reuse_key : BOOLEAN, no_random_sleep : BOOLEAN]

\* createRenew's Before: either --domains or --csr, not both
Before(c) == c.csr <=> (c.domains = <<>>)

\* the instants a stored leaf can expire at
NotAfters == {k * Day + 1 : k \in -1 .. MaxCertDays}
Leaves == [IsCA : BOOLEAN, NotAfter : NotAfters]
Issuer == [IsCA |-> TRUE, NotAfter |-> (MaxCertDays + 1) * Day]
\* the chains ReadCertificate can return: the leaf, then the issuer if stored
Chains == {<<l>> : l \in Leaves} \cup {<<l, Issuer>> : l \in Leaves}

Init ==
    /\ ctx \in {c \in Flags : Before(c)}
    /\ isTerminal \in BOOLEAN
    /\ clock = 0
    /\ pc = "renew"
    /\ domain = ""
    /\ certificates = <<>>
    /\ ariRenewalTime = Nil
    /\ renewalInfo = "none"
    /\ request = Nil
    /\ certRes = Nil
    /\ saved = Nil
    /\ meta = <<>>
    /\ calls = <<>>
    /\ outcome = "running"
    /\ fn = Nil

\* ------------------------------------------------------------------- steps

Call(op, arg, res) ==
    calls' = Append(calls, [op |-> op, arg |-> arg, res |-> res])

\* log.Fatal / log.Fatalf: the process exits
Fatal == pc' = "done" /\ outcome' = "fatal"
\* return from renewForDomains / renewForCSR
Return(r) == pc' = "done" /\ outcome' = r
Goto(p) == pc' = p /\ UNCHANGED outcome

\* time.Sleep(d): d elapses (what elapses beyond d is Tick's)
Sleep(d) == clock' = clock + d

\* time passes by itself
Tick ==
    /\ pc /= "done"
    /\ clock < MaxClock
    /\ clock' = clock + 1
    /\ UNCHANGED <<fn, ctx, isTerminal, pc, domain, certificates, ariRenewalTime,
                   renewalInfo, request, certRes, saved, meta, calls, outcome>>

\* renew: the account must be registered; meta starts with the email
renew ==
    /\ pc = "renew"
    /\ \E registered \in BOOLEAN :
         IF ~registered
         THEN Fatal /\ UNCHANGED meta
         ELSE /\ meta' = (renewEnvAccountEmail :> <<"account.Email">>)
              /\ Goto(IF ctx.csr THEN "readCSRFile" ELSE "ReadCertificate")
    /\ UNCHANGED <<fn, ctx, isTerminal, clock, domain, certificates,
                   ariRenewalTime, renewalInfo, request, certRes, saved, calls>>

\* renewForCSR: csr, err := readCSRFile(...); domain := csr.Subject.CommonName
readCSRFile ==
    /\ pc = "readCSRFile"
    /\ \/ Fatal /\ UNCHANGED domain
       \/ \E cn \in Names : domain' = cn /\ Goto("ReadCertificate")
    /\ UNCHANGED <<fn, ctx, isTerminal, clock, certificates, ariRenewalTime,
                   renewalInfo, request, certRes, saved, meta, calls>>

\* certificates, err := certsStorage.ReadCertificate(domain, ".crt")
ReadCertificate ==
    /\ pc = "ReadCertificate"
    /\ domain' = IF ctx.csr THEN domain ELSE ctx.domains[1]
    /\ \/ Fatal /\ UNCHANGED certificates
       \/ \E chain \in Chains : certificates' = chain /\ Goto("getARIRenewalTime")
    /\ UNCHANGED <<fn, ctx, isTerminal, clock, ariRenewalTime, renewalInfo,
                   request, certRes, saved, meta, calls>>

\* makeCertID(leaf, issuer, hashName): the hash algorithm, the hashes of the
\* issuer's name and key, and the leaf's serial number, encoded
makeCertID(leaf, issuer, hashName) == <<hashName, issuer, leaf>>

\* the RenewalInfoRequest of GetRenewalInfo and UpdateRenewalInfo
RenewalInfoRequest ==
    [Cert |-> certificates[1], Issuer |-> certificates[2], HashName |-> HashName]

\* a lookup failure that ends the run instead of falling back
LookupFailedFatal(err) ==
    /\ Call("GetRenewalInfo", RenewalInfoRequest, err)
    /\ renewalInfo' = err
    /\ ariRenewalTime' = Nil
    /\ Fatal

\* getARIRenewalTime, err != nil: warn and return nil
LookupFailed(err) ==
    /\ Call("GetRenewalInfo", RenewalInfoRequest, err)
    /\ renewalInfo' = err
    /\ ariRenewalTime' = Nil
    /\ Goto("needRenewal")

\* a lookup that hands the evaluator a longer wait than the flag's
LookupAnsweredLongerWait(w, rt) ==
    /\ Call("GetRenewalInfo", RenewalInfoRequest, "nil")
    /\ renewalInfo' = "window"
    /\ ariRenewalTime' = ShouldRenewAt(rt, clock, ctx.ari_wait + 1)
    /\ Goto(IF ariRenewalTime' = Nil THEN "needRenewal" ELSE "Sleep")

\* getARIRenewalTime, err == nil: the window decides
LookupAnswered(w, rt) ==
    /\ Call("GetRenewalInfo", RenewalInfoRequest, "nil")
    /\ renewalInfo' = "window"
    /\ ariRenewalTime' = ShouldRenewAt(rt, clock, ctx.ari_wait)
    /\ Goto(IF ariRenewalTime' = Nil THEN "needRenewal" ELSE "Sleep")

\* the windows the renewalInfo endpoint can suggest
Windows == [Start : -MaxWin .. MaxWin, End : -MaxWin .. MaxWin]

\* an ARI step that does not look at the --ari-enable flag
getARIRenewalTimeUnflagged ==
    /\ pc = "getARIRenewalTime"
    /\ IF Len(certificates) < 2
       THEN Goto("needRenewal") /\ UNCHANGED <<ariRenewalTime, renewalInfo, calls>>
       ELSE IF certificates[1].IsCA
       THEN Fatal /\ UNCHANGED <<ariRenewalTime, renewalInfo, calls>>
       ELSE \/ \E err \in {"ErrNoARI", "error"} : LookupFailed(err)
            \/ \E w \in Windows : \E rt \in Draws(w) : LookupAnswered(w, rt)
    /\ UNCHANGED <<fn, ctx, isTerminal, clock, domain, certificates, request,
                   certRes, saved, meta>>

\* if ctx.Bool("ari-enable") { ... ariRenewalTime = getARIRenewalTime(...) }
getARIRenewalTime ==
    /\ pc = "getARIRenewalTime"
    /\ IF ~ctx.ari_enable \/ Len(certificates) < 2
       THEN Goto("needRenewal") /\ UNCHANGED <<ariRenewalTime, renewalInfo, calls>>
       ELSE IF certificates[1].IsCA
       THEN Fatal /\ UNCHANGED <<ariRenewalTime, renewalInfo, calls>>
       ELSE \/ \E err \in {"ErrNoARI", "error"} : LookupFailed(err)
            \/ \E w \in Windows : \E rt \in Draws(w) : LookupAnswered(w, rt)
    /\ UNCHANGED <<fn, ctx, isTerminal, clock, domain, certificates, request,
                   certRes, saved, meta>>

\* a run that does not wait for the renewal time
SleepUntilSkipped(t) == UNCHANGED <<clock, calls>>

\* if ariRenewalTime != nil { now := ...; if ariRenewalTime.After(now) { Sleep } }
SleepUntil(t) ==
    IF t > clock
    THEN Sleep(t - clock) /\ Call("Sleep until renewal time", t - clock, "nil")
    ELSE UNCHANGED <<clock, calls>>

SleepUntilRenewalTime ==
    /\ pc = "Sleep"
    /\ SleepUntil(Deref(ariRenewalTime))
    /\ Goto("needRenewal")
    /\ UNCHANGED <<fn, ctx, isTerminal, domain, certificates, ariRenewalTime,
                   renewalInfo, request, certRes, saved, meta>>

\* if ariRenewalTime == nil && !needRenewal(cert, domain, days) { return nil }
Proceed == Goto(IF ctx.csr THEN "ObtainForCSR" ELSE "ReadFile")

\* a decision that applies the expiry rule whatever ARI said
CheckRenewalAlways ==
    /\ pc = "needRenewal"
    /\ LET need == needRenewal(certificates[1], clock, ctx.days)
       IN /\ Call("needRenewal", ctx.days, need)
          /\ CASE need = "fatal" -> Fatal
               [] need = "no renewal" -> Return("nil")
               [] OTHER -> Proceed
    /\ UNCHANGED <<fn, ctx, isTerminal, clock, domain, certificates,
                   ariRenewalTime, renewalInfo, request, certRes, saved, meta>>

\* a decision whose "no renewal" does not return
CheckRenewalNoReturn ==
    /\ pc = "needRenewal"
    /\ IF ariRenewalTime /= Nil
       THEN Proceed /\ UNCHANGED calls
       ELSE LET need == needRenewal(certificates[1], clock, ctx.days)
            IN /\ Call("needRenewal", ctx.days, need)
               /\ IF need = "fatal" THEN Fatal ELSE Proceed
    /\ UNCHANGED <<fn, ctx, isTerminal, clock, domain, certificates,
                   ariRenewalTime, renewalInfo, request, certRes, saved, meta>>

CheckRenewal ==
    /\ pc = "needRenewal"
    /\ IF ariRenewalTime /= Nil
       THEN Proceed /\ UNCHANGED calls
       ELSE LET need == needRenewal(certificates[1], clock, ctx.days)
            IN /\ Call("needRenewal", ctx.days, need)
               /\ CASE need = "fatal" -> Fatal
                    [] need = "no renewal" -> Return("nil")
                    [] OTHER -> Proceed
    /\ UNCHANGED <<fn, ctx, isTerminal, clock, domain, certificates,
                   ariRenewalTime, renewalInfo, request, certRes, saved, meta>>

\* renewForDomains: if ctx.Bool("reuse-key") { ReadFile; ParsePEMPrivateKey }
ReadPrivateKey ==
    /\ pc = "ReadFile"
    /\ IF ~ctx.reuse_key
       THEN Goto("randomSleep") /\ UNCHANGED calls
       ELSE \/ Call("ReadFile", ".key", "errR") /\ Fatal
            \/ Call("ReadFile", ".key", "parse errR") /\ Return("err")
            \/ Call("ReadFile", ".key", "nil") /\ Goto("randomSleep")
    /\ UNCHANGED <<fn, ctx, isTerminal, clock, domain, certificates,
                   ariRenewalTime, renewalInfo, request, certRes, saved, meta>>

\* if !isatty.IsTerminal(os.Stdout.Fd()) && !ctx.Bool("no-random-sleep")
RandomSleepApplies == ~isTerminal /\ ~ctx.no_random_sleep

\* a draw that can reach the ceiling itself
SleepTimesInclusive == 0 .. jitter

\* sleepTime := time.Duration(rnd.Int63n(int64(jitter)))
SleepTimes == 0 .. (jitter - 1)

\* renewForDomains: the random delay before the request
RandomSleep ==
    /\ pc = "randomSleep"
    /\ IF RandomSleepApplies
       THEN \E sleepTime \in SleepTimes :
                Sleep(sleepTime) /\ Call("Sleep random delay", sleepTime, "nil")
       ELSE UNCHANGED <<clock, calls>>
    /\ Goto("Obtain")
    /\ UNCHANGED <<fn, ctx, isTerminal, domain, certificates, ariRenewalTime,
                   renewalInfo, request, certRes, saved, meta>>

\* certRes, err := client.Certificate.Obtain(request); err is fatal
ObtainRequest(certDomains) ==
    [Domains |-> merge(certDomains, ctx.domains),
     PrivateKey |-> IF ctx.reuse_key THEN "privateKey" ELSE "nil"]

Obtained(op, req) ==
    /\ Call(op, req, "nil")
    /\ request' = Ptr(req)
    /\ certRes' = Ptr([Domain |-> domain, Certificate |-> "new"])
    /\ Goto("SaveResource")

\* an obtain error that is ignored
ObtainFailedIgnored(op, req) ==
    /\ Call(op, req, "err")
    /\ request' = Ptr(req)
    /\ certRes' = Ptr([Domain |-> domain, Certificate |-> "none"])
    /\ Goto("SaveResource")

\* an obtain error that is answered by trying again
ObtainFailedRetried(op, req) ==
    /\ Call(op, req, "err")
    /\ request' = Ptr(req)
    /\ Goto(pc)
    /\ UNCHANGED certRes

ObtainFailed(op, req) ==
    /\ Call(op, req, "err")
    /\ request' = Ptr(req)
    /\ Fatal
    /\ UNCHANGED certRes

Obtain ==
    /\ pc = "Obtain"
    /\ \E certDomains \in CertDomainLists :
         \/ Obtained("Obtain", ObtainRequest(certDomains))
         \/ ObtainFailed("Obtain", ObtainRequest(certDomains))
    /\ UNCHANGED <<fn, ctx, isTerminal, clock, domain, certificates,
                   ariRenewalTime, renewalInfo, saved, meta>>

\* renewForCSR: certRes, err := client.Certificate.ObtainForCSR(...)
ObtainForCSRRequest == [CSR |-> domain]

ObtainForCSR ==
    /\ pc = "ObtainForCSR"
    /\ \/ Obtained("ObtainForCSR", ObtainForCSRRequest)
       \/ ObtainFailed("ObtainForCSR", ObtainForCSRRequest)
    /\ UNCHANGED <<fn, ctx, isTerminal, clock, domain, certificates,
                   ariRenewalTime, renewalInfo, saved, meta>>

\* a run that reports and launches the hook without having saved
SaveResourceSkipped ==
    /\ pc = "SaveResource"
    /\ Goto("UpdateRenewalInfo")
    /\ UNCHANGED <<fn, ctx, isTerminal, clock, domain, certificates, ariRenewalTime,
                   renewalInfo, request, certRes, saved, meta, calls>>

\* certsStorage.SaveResource(certRes)
SaveResource ==
    /\ pc = "SaveResource"
    /\ Call("SaveResource", certRes, "nil")
    /\ saved' = certRes
    /\ Goto("UpdateRenewalInfo")
    /\ UNCHANGED <<fn, ctx, isTerminal, clock, domain, certificates,
                   ariRenewalTime, renewalInfo, request, certRes, meta>>

\* a report that names the newly obtained certificate
ReportNewCertificate(err) ==
    /\ Call("UpdateRenewalInfo",
            [Cert |-> Deref(certRes), Issuer |-> certificates[2],
             HashName |-> HashName], err)
    /\ Goto("launchHook")

\* a failed report that ends the run
ReportFatal(err) ==
    /\ Call("UpdateRenewalInfo", RenewalInfoRequest, err)
    /\ IF err = "nil" THEN Goto("launchHook") ELSE Fatal

\* if ariRenewalTime != nil { err := UpdateRenewalInfo(...); warn on err }
Report(err) ==
    /\ Call("UpdateRenewalInfo", RenewalInfoRequest, err)
    /\ Goto("launchHook")

\* a run that never reports the replacement
UpdateRenewalInfoSkipped ==
    /\ pc = "UpdateRenewalInfo"
    /\ Goto("launchHook")
    /\ UNCHANGED <<fn, ctx, isTerminal, clock, domain, certificates, ariRenewalTime,
                   renewalInfo, request, certRes, saved, meta, calls>>

UpdateRenewalInfo ==
    /\ pc = "UpdateRenewalInfo"
    /\ IF ariRenewalTime /= Nil
       THEN \E err \in {"nil", "err"} : Report(err)
       ELSE Goto("launchHook") /\ UNCHANGED calls
    /\ UNCHANGED <<fn, ctx, isTerminal, clock, domain, certificates,
                   ariRenewalTime, renewalInfo, request, certRes, saved, meta>>

\* certsStorage.GetFileName(domain, extension)
GetFileName(d, ext) == <<d, ext>>

\* meta[...] = ... of renewForDomains and of renewForCSR
DomainsMeta ==
    (renewEnvCertDomain :> <<domain>>)
    @@ (renewEnvCertPath :> GetFileName(domain, ".crt"))
    @@ (renewEnvCertKeyPath :> GetFileName(domain, ".key"))
    @@ (renewEnvCertPEMPath :> GetFileName(domain, ".pem"))
    @@ (renewEnvCertPFXPath :> GetFileName(domain, ".pfx"))

CSRMeta ==
    (renewEnvCertDomain :> <<domain>>)
    @@ (renewEnvCertPath :> GetFileName(domain, ".crt"))
    @@ (renewEnvCertKeyPath :> GetFileName(domain, ".key"))

\* return launchHook(ctx.String("renew-hook"), meta)
launchHook ==
    /\ pc = "launchHook"
    /\ meta' = (IF ctx.csr THEN CSRMeta ELSE DomainsMeta) @@ meta
    /\ \E err \in {"nil", "err"} :
         Call("launchHook", meta', err) /\ Return(err)
    /\ UNCHANGED <<fn, ctx, isTerminal, clock, domain, certificates,
                   ariRenewalTime, renewalInfo, request, certRes, saved>>

Next ==
    \/ Tick
    \/ renew
    \/ readCSRFile
    \/ ReadCertificate
    \/ getARIRenewalTime
    \/ SleepUntilRenewalTime
    \/ CheckRenewal
    \/ ReadPrivateKey
    \/ RandomSleep
    \/ Obtain
    \/ ObtainForCSR
    \/ SaveResource
    \/ UpdateRenewalInfo
    \/ launchHook

Spec == Init /\ [][Next]_vars

\* the steps of the run itself: Next without the passing of time
Run ==
    \/ renew
    \/ readCSRFile
    \/ ReadCertificate
    \/ getARIRenewalTime
    \/ SleepUntilRenewalTime
    \/ CheckRenewal
    \/ ReadPrivateKey
    \/ RandomSleep
    \/ Obtain
    \/ ObtainForCSR
    \/ SaveResource
    \/ UpdateRenewalInfo
    \/ launchHook

\* a run whose calls return and whose sleeps complete: the single thread of
\* renew goes on to its next statement
FairSpec == Spec /\ WF_vars(Run)

\* ------------------------------------------- the pure functions on their own

\* what the variables of the run hold while a function is called on its own
Idle ==
    /\ ctx = [csr |-> FALSE, domains |-> <<"a">>, days |-> 0,
              ari_enable |-> FALSE, ari_wait |-> 0, reuse_key |-> FALSE,
              no_random_sleep |-> FALSE]
    /\ isTerminal = FALSE
    /\ clock = 0
    /\ pc = "done"
    /\ domain = ""
    /\ certificates = <<>>
    /\ ariRenewalTime = Nil
    /\ renewalInfo = "none"
    /\ request = Nil
    /\ certRes = Nil
    /\ saved = Nil
    /\ meta = <<>>
    /\ calls = <<>>
    /\ outcome = "running"

\* ri.ShouldRenewAt(now, willingToSleep) for a window, an instant and a wait
InitShouldRenewAt ==
    /\ Idle
    /\ fn \in [w : Windows, now : 0 .. MaxClock,
               willingToSleep : 0 .. MaxWilling,
               rt : {Nil}, out : {Nil}, done : {FALSE}]

CallShouldRenewAt ==
    /\ ~fn.done
    /\ \E rt \in Draws(fn.w) :
         fn' = [fn EXCEPT !.rt = Ptr(rt),
                          !.out = ShouldRenewAt(rt, fn.now, fn.willingToSleep),
                          !.done = TRUE]
    /\ UNCHANGED <<ctx, isTerminal, clock, pc, domain, certificates,
                   ariRenewalTime, renewalInfo, request, certRes, saved, meta,
                   calls, outcome>>

NextShouldRenewAt == CallShouldRenewAt

SpecShouldRenewAt == InitShouldRenewAt /\ [][NextShouldRenewAt]_vars

\* merge(prevDomains, nextDomains) for two lists of names
MergeNames == {"a", "b", "c"}
MergeLists == UNION {[1 .. n -> MergeNames] : n \in 0 .. MaxLen}

InitMerge ==
    /\ Idle
    /\ fn \in [prevDomains : MergeLists, nextDomains : MergeLists,
               out : {<<>>}, done : {FALSE}]

CallMerge ==
    /\ ~fn.done
    /\ fn' = [fn EXCEPT !.out = merge(fn.prevDomains, fn.nextDomains),
                        !.done = TRUE]
    /\ UNCHANGED <<ctx, isTerminal, clock, pc, domain, certificates,
                   ariRenewalTime, renewalInfo, request, certRes, saved, meta,
                   calls, outcome>>

NextMerge == CallMerge

SpecMerge == InitMerge /\ [][NextMerge]_vars

\* ------------------------------------------------------------------ claims

Called(op) == \E i \in 1 .. Len(calls) : calls[i].op = op
Count(op) == Cardinality({i \in 1 .. Len(calls) : calls[i].op = op})
\* the result of the (first) call of op
ResultOf(op) == calls[CHOOSE i \in 1 .. Len(calls) : calls[i].op = op].res
ObtainOps == {"Obtain", "ObtainForCSR"}
ObtainCalled == \E i \in 1 .. Len(calls) : calls[i].op \in ObtainOps
\* the run has passed the decision and goes on to the request
Proceeded ==
    \/ pc \in {"ReadFile", "randomSleep", "Obtain", "ObtainForCSR",
               "SaveResource", "UpdateRenewalInfo", "launchHook"}
    \/ pc = "done" /\ (Called("ReadFile") \/ ObtainCalled)
\* the run ended in "no renewal needed"
NoRenewalNeeded ==
    /\ pc = "done"
    /\ Called("needRenewal")
    /\ ResultOf("needRenewal") = "no renewal"

\* C1: in both functions the new certificate is saved before any
\* UpdateRenewalInfo call and before launchHook: every such call is preceded
\* by the SaveResource call, and storage holds the obtained resource then.
C1_SaveFirst ==
    \A i \in 1 .. Len(calls) :
        calls[i].op \in {"UpdateRenewalInfo", "launchHook"} =>
            /\ saved /= Nil
            /\ saved = certRes
            /\ \E j \in 1 .. (i - 1) : calls[j].op = "SaveResource"

C1_Witness ==
    /\ Called("UpdateRenewalInfo")
    /\ Called("launchHook")
    /\ ctx.csr

\* C2: when GetRenewalInfo fails (ErrNoARI or any other error) the run is not
\* aborted: no renewal time is produced, no ARI sleep happens, needRenewal is
\* evaluated next and its answer decides: "no renewal" ends the run without
\* error, "renew" lets it go on.
C2_LookupFailureFallsBack ==
    renewalInfo \in {"ErrNoARI", "error"} =>
        /\ ariRenewalTime = Nil
        /\ ~Called("Sleep until renewal time")
        /\ IF ~Called("needRenewal")
           THEN pc = "needRenewal" /\ outcome = "running"
           ELSE /\ ResultOf("needRenewal") \in {"renew", "no renewal"}
                /\ (ResultOf("needRenewal") = "no renewal") <=>
                       (pc = "done" /\ outcome = "nil" /\ ~Proceeded)
                /\ (ResultOf("needRenewal") = "renew") <=> Proceeded

C2_Witness ==
    /\ renewalInfo = "error"
    /\ ObtainCalled
    /\ ResultOf("needRenewal") = "renew"

\* days remaining at instant now: (NotAfter - now) / Day, truncated toward zero
DaysRemaining(now) ==
    LET x == certificates[1].NotAfter - now
    IN CHOOSE d \in -(MaxCertDays + 2) .. (MaxCertDays + 2) :
           IF x >= 0 THEN d * Day <= x /\ x < (d + 1) * Day
                     ELSE (d - 1) * Day < x /\ x <= d * Day

\* the decision step under the expiry rule
C3_Step ==
    (/\ pc = "needRenewal"
     /\ pc' /= pc
     /\ ariRenewalTime = Nil
     /\ ~certificates[1].IsCA
     /\ ctx.days >= 0)
    => /\ (DaysRemaining(clock) <= ctx.days) <=>
              (pc' = IF ctx.csr THEN "ObtainForCSR" ELSE "ReadFile")
       /\ (DaysRemaining(clock) > ctx.days) <=>
              (pc' = "done" /\ outcome' = "nil")

\* C3: with no ARI renewal time, a leaf that is no CA and days >= 0, the
\* decision step lets the run go on to the request exactly when the days
\* remaining (time to NotAfter over a day, truncated toward zero) are <= days,
\* and ends it with "no renewal needed" (nil, nothing done) exactly when they
\* are > days.
C3_ExpiryRule == [][C3_Step]_vars

C3_Witness ==
    /\ Called("needRenewal")
    /\ ResultOf("needRenewal") = "renew"
    /\ ctx.days >= 0
    /\ DaysRemaining(clock) = ctx.days
    /\ pc \in {"ObtainForCSR", "ReadFile"}

\* C4: a run that ends in "no renewal needed" returns nil and has done
\* nothing: no Obtain / ObtainForCSR, no SaveResource, no UpdateRenewalInfo,
\* no hook, no private-key read, no random sleep.
C4_NoRenewalNoAction ==
    NoRenewalNeeded =>
        /\ outcome = "nil"
        /\ \A i \in 1 .. Len(calls) :
               calls[i].op \notin {"Obtain", "ObtainForCSR", "SaveResource",
                                   "UpdateRenewalInfo", "launchHook",
                                   "ReadFile", "Sleep random delay"}
        /\ request = Nil
        /\ certRes = Nil
        /\ saved = Nil

C4_Witness ==
    /\ NoRenewalNeeded
    /\ renewalInfo = "window"
    /\ ~isTerminal
    /\ ctx.reuse_key

\* C5: a failed Obtain / ObtainForCSR is fatal: the run is over, nothing is
\* saved, nothing reported, no hook launched; and no run calls obtain twice.
C5_ObtainFailureFatal ==
    /\ Count("Obtain") + Count("ObtainForCSR") <= 1
    /\ \A i \in 1 .. Len(calls) :
           (calls[i].op \in ObtainOps /\ calls[i].res = "err") =>
               /\ pc = "done"
               /\ outcome = "fatal"
               /\ i = Len(calls)
               /\ certRes = Nil
               /\ saved = Nil

C5_Witness ==
    /\ Called("ObtainForCSR")
    /\ ResultOf("ObtainForCSR") = "err"
    /\ ariRenewalTime /= Nil

\* C6: once a run has obtained and saved and is past the report step,
\* UpdateRenewalInfo has been called exactly once if the decision step had an
\* ARI renewal time, and not at all if the expiry rule decided.
C6_ReportIffARI ==
    /\ Count("UpdateRenewalInfo") <= 1
    /\ (Called("SaveResource") /\ pc \in {"launchHook", "done"}) =>
           Count("UpdateRenewalInfo") = (IF ariRenewalTime /= Nil THEN 1 ELSE 0)

C6_Witness ==
    /\ pc = "done"
    /\ Called("launchHook")
    /\ Count("UpdateRenewalInfo") = 1
    /\ ~ctx.csr

\* the entries both functions put into the metadata
MetaPopulated(m) ==
    {renewEnvAccountEmail, renewEnvCertDomain, renewEnvCertPath,
     renewEnvCertKeyPath} \subseteq DOMAIN m

\* C7: a failed UpdateRenewalInfo does not fail the run: the certificate
\* stays saved, the report is not repeated, and the run goes on to populate
\* the metadata and launch the hook, whose result is the run's result.
C7_ReportFailureTolerated ==
    (Called("UpdateRenewalInfo") /\ ResultOf("UpdateRenewalInfo") = "err") =>
        /\ saved /= Nil
        /\ saved = certRes
        /\ Count("UpdateRenewalInfo") = 1
        /\ \/ pc = "launchHook" /\ outcome = "running"
           \/ /\ pc = "done"
              /\ calls[Len(calls)].op = "launchHook"
              /\ MetaPopulated(meta)
              /\ outcome = calls[Len(calls)].res

C7_Witness ==
    /\ Called("UpdateRenewalInfo")
    /\ ResultOf("UpdateRenewalInfo") = "err"
    /\ pc = "done"
    /\ outcome = "nil"

\* C8: for a domain target and a CSR target alike, when stdout is no terminal
\* and no-random-sleep is unset, the random sleep has been performed by the
\* time the obtain request is issued.
C8_JitterBeforeObtain ==
    (pc \in {"Obtain", "ObtainForCSR"} /\ ~isTerminal /\ ~ctx.no_random_sleep)
        => Called("Sleep random delay")

\* C9: the random sleep is skipped when stdout is a terminal or
\* no-random-sleep is set; a performed one lasts d with 0 <= d < 8 minutes.
C9_JitterBounded ==
    /\ (isTerminal \/ ctx.no_random_sleep) => ~Called("Sleep random delay")
    /\ \A i \in 1 .. Len(calls) :
           calls[i].op = "Sleep random delay" =>
               (0 <= calls[i].arg /\ calls[i].arg < 8)

C9_Witness ==
    \E i \in 1 .. Len(calls) :
        calls[i].op = "Sleep random delay" /\ calls[i].arg = 7

\* C10: when the lookup yields a renewal instant T, the run is past T from
\* the end of the ARI step on, so the obtain request is never issued before
\* T; a T later than the current time is waited for with a sleep.
C10_NotBeforeRenewalTime ==
    (ariRenewalTime /= Nil /\ pc \notin {"getARIRenewalTime", "Sleep"}) =>
        clock >= Deref(ariRenewalTime)

C10_Witness ==
    /\ Called("Sleep until renewal time")
    /\ ObtainCalled
    /\ Deref(ariRenewalTime) > 0
    /\ ctx.csr

\* C11: the sleep for an ARI renewal time never lasts longer than
\* ari-wait-to-renew-duration; with the default 0 the run never sleeps for
\* ARI (the renewal time is then the lookup's own "now", or absent).
C11_SleepWithinWait ==
    /\ \A i \in 1 .. Len(calls) :
           calls[i].op = "Sleep until renewal time" =>
               (0 < calls[i].arg /\ calls[i].arg <= ctx.ari_wait)
    /\ ctx.ari_wait = 0 =>
           /\ ~Called("Sleep until renewal time")
           /\ (ariRenewalTime /= Nil => Deref(ariRenewalTime) <= clock)

C11_Witness ==
    /\ Called("Sleep until renewal time")
    /\ ctx.ari_wait = 1
    /\ \E i \in 1 .. Len(calls) :
           calls[i].op = "Sleep until renewal time" /\ calls[i].arg = 1

\* the window as the evaluator reads it: from the earlier of its two instants
\* to the later one
WinStart(w) == IF w.Start <= w.End THEN w.Start ELSE w.End
WinEnd(w) == IF w.Start <= w.End THEN w.End ELSE w.Start

\* C12: ShouldRenewAt on a window that lies entirely at or before now
\* (end <= now) returns exactly now, for every draw and every maxWait >= 0.
C12_PastWindowNow ==
    (fn.done /\ fn.w.Start <= fn.now /\ fn.w.End <= fn.now) =>
        fn.out = Ptr(fn.now)

C12_Witness ==
    /\ fn.done
    /\ fn.w.Start < fn.w.End
    /\ fn.w.End < fn.now
    /\ fn.willingToSleep > 0
    /\ fn.out = Ptr(fn.now)

\* C13: ShouldRenewAt on a window whose start is later than now + maxWait
\* (any window starting in the future when maxWait is 0) returns absent, for
\* every draw.
C13_UnreachableWindowAbsent ==
    (fn.done /\ WinStart(fn.w) > fn.now + fn.willingToSleep) => fn.out = Nil

C13_Witness ==
    /\ fn.done
    /\ fn.w.Start > fn.now + fn.willingToSleep
    /\ fn.w.End > fn.w.Start
    /\ fn.out = Nil

\* C14 as stated: a window that starts after now and ends at or before
\* now + maxWait yields, for every draw, an instant T with start <= T < end.
C14_ReachableWindowInside ==
    (fn.done /\ WinStart(fn.w) > fn.now
             /\ WinEnd(fn.w) <= fn.now + fn.willingToSleep) =>
        /\ fn.out /= Nil
        /\ WinStart(fn.w) <= Deref(fn.out)
        /\ Deref(fn.out) < WinEnd(fn.w)

\* C14, amended: such a window yields, for every draw, an instant T with
\* start <= T < end, or T = start when the window is degenerate
\* (start = end); in both cases now < T <= now + maxWait.
C14_ReachableWindowInsideOrStart ==
    (fn.done /\ WinStart(fn.w) > fn.now
             /\ WinEnd(fn.w) <= fn.now + fn.willingToSleep) =>
        /\ fn.out /= Nil
        /\ fn.out = fn.rt
        /\ WinStart(fn.w) <= Deref(fn.out)
        /\ IF WinStart(fn.w) = WinEnd(fn.w)
           THEN Deref(fn.out) = WinStart(fn.w)
           ELSE Deref(fn.out) < WinEnd(fn.w)
        /\ fn.now < Deref(fn.out)
        /\ Deref(fn.out) <= fn.now + fn.willingToSleep

C14_Witness ==
    /\ fn.done
    /\ fn.w.Start > fn.now
    /\ fn.w.End = fn.w.Start + 1
    /\ fn.w.End <= fn.now + fn.willingToSleep
    /\ fn.out = Ptr(fn.w.Start)

\* C15 as stated: whenever the window has begun (start <= now), elapsed or
\* not, ShouldRenewAt returns now.
C15_BegunWindowNow ==
    (fn.done /\ WinStart(fn.w) <= fn.now) => fn.out = Ptr(fn.now)

\* C15, amended: when the window has begun (start <= now), ShouldRenewAt
\* returns now if the draw is at or before now, which is every draw once the
\* window has elapsed (end <= now); a draw r later than now is returned
\* itself if r <= now + maxWait and makes the result absent otherwise.
C15_BegunWindowByDraw ==
    (fn.done /\ WinStart(fn.w) <= fn.now) =>
        /\ Deref(fn.rt) <= fn.now => fn.out = Ptr(fn.now)
        /\ WinEnd(fn.w) <= fn.now => Deref(fn.rt) <= fn.now
        /\ (Deref(fn.rt) > fn.now
              /\ Deref(fn.rt) <= fn.now + fn.willingToSleep) => fn.out = fn.rt
        /\ Deref(fn.rt) > fn.now + fn.willingToSleep => fn.out = Nil

C15_Witness ==
    /\ fn.done
    /\ fn.w.Start <= fn.now
    /\ fn.now < fn.w.End
    /\ Deref(fn.rt) > fn.now
    /\ fn.out = fn.rt

\* C16: merging a list into itself yields the list unchanged: same elements,
\* same order, same length.
C16_MergeIdempotent ==
    (fn.done /\ fn.prevDomains = fn.nextDomains) => fn.out = fn.prevDomains

C16_Witness ==
    /\ fn.done
    /\ fn.prevDomains = fn.nextDomains
    /\ fn.prevDomains = <<"b", "a", "b">>
    /\ fn.out = <<"b", "a", "b">>

Range(l) == {l[i] : i \in 1 .. Len(l)}
NoDuplicate(l) == \A i, j \in 1 .. Len(l) : l[i] = l[j] => i = j
\* the position of name's first occurrence in l
First(l, name) == CHOOSE i \in 1 .. Len(l) :
                      l[i] = name /\ \A j \in 1 .. (i - 1) : l[j] /= name
\* out is prev, in its order, followed by the names of next that are not in
\* prev, each once, in the order of their first occurrence in next
PrevThenNew(out, prev, next) ==
    /\ Len(out) >= Len(prev)
    /\ SubSeq(out, 1, Len(prev)) = prev
    /\ LET new == SubSeq(out, Len(prev) + 1, Len(out))
       IN /\ Range(new) = Range(next) \ Range(prev)
          /\ NoDuplicate(new)
          /\ \A i, j \in 1 .. Len(new) :
                 i < j => First(next, new[i]) < First(next, new[j])

\* C17 as stated: merge returns prev in its order followed by the names of
\* next not in prev in order of first occurrence, and no name occurs twice in
\* the result.
C17_MergeUnionNoDuplicate ==
    fn.done => /\ PrevThenNew(fn.out, fn.prevDomains, fn.nextDomains)
               /\ NoDuplicate(fn.out)

\* C17, amended: merge returns prev in its order followed by the names of
\* next not in prev in order of first occurrence, each added once; a name
\* occurs twice in the result only where it already occurs twice in prev.
C17_MergeUnion ==
    fn.done => /\ PrevThenNew(fn.out, fn.prevDomains, fn.nextDomains)
               /\ NoDuplicate(fn.prevDomains) => NoDuplicate(fn.out)
               /\ \A i, j \in 1 .. Len(fn.out) :
                      (fn.out[i] = fn.out[j] /\ i /= j) =>
                          (i <= Len(fn.prevDomains) /\ j <= Len(fn.prevDomains))

C17_Witness ==
    /\ fn.done
    /\ fn.prevDomains = <<"a", "b">>
    /\ fn.nextDomains = <<"c", "b", "c">>
    /\ fn.out = <<"a", "b", "c">>

\* C18: whenever the hook is launched, for a domain target and a CSR target
\* alike, the metadata holds the account email, the certificate domain and
\* all four file paths (certificate, key, combined PEM, PKCS#12 bundle).
C18_MetaComplete ==
    \A i \in 1 .. Len(calls) :
        calls[i].op = "launchHook" =>
            {renewEnvAccountEmail, renewEnvCertDomain, renewEnvCertPath,
             renewEnvCertKeyPath, renewEnvCertPEMPath, renewEnvCertPFXPath}
                \subseteq DOMAIN calls[i].arg

C20_ARIOverridesExpiry ==
    ariRenewalTime /= Nil =>
        /\ ~Called("needRenewal")
        /\ pc \in {"Sleep", "needRenewal"} \/ Proceeded

C20_Witness ==
    /\ ariRenewalTime /= Nil
    /\ ObtainCalled
    /\ ctx.days >= 0
    /\ DaysRemaining(clock) > ctx.days

\* the calls that read the issuer element certificates[1] of the chain
ARIOps == {"GetRenewalInfo", "UpdateRenewalInfo"}

\* the run is past the decision of lines 154-156
Decided == Proceeded \/ NoRenewalNeeded

\* C21: GetRenewalInfo and UpdateRenewalInfo are called only in runs with
\* --ari-enable and a stored chain of at least two certificates, and the
\* issuer they are given is the chain's second element; with ARI disabled or
\* a leaf-only chain neither is called, there is no ARI renewal time, and a
\* run that got past the decision had it made by needRenewal.
C21_ARINeedsIssuer ==
    /\ \A i \in 1 .. Len(calls) :
           calls[i].op \in ARIOps =>
               /\ ctx.ari_enable
               /\ Len(certificates) >= 2
               /\ calls[i].arg.Issuer = certificates[2]
    /\ (~ctx.ari_enable \/ Len(certificates) < 2) =>
           /\ ariRenewalTime = Nil
           /\ renewalInfo = "none"
           /\ Decided => Called("needRenewal")

C21_Witness ==
    /\ ctx.ari_enable
    /\ Len(certificates) = 1
    /\ pc = "done"
    /\ Called("launchHook")
    /\ Called("needRenewal")

\* the stored chain has been loaded and its first certificate is a CA's
LeafIsCA == certificates /= <<>> /\ certificates[1].IsCA

\* C22: whatever the flags and the chain (ARI enabled or not, issuer stored
\* or not, any --days including a negative one, domains or CSR), a run whose
\* stored leaf is flagged as a CA certificate does nothing after loading it:
\* no ARI lookup, no key read, no sleep, no obtain, no save, no report, no
\* hook; it never gets past the decision, and it ends only as fatal.
C22_CALeafFatal ==
    LeafIsCA =>
        /\ \A i \in 1 .. Len(calls) : calls[i].op = "needRenewal"
        /\ ~Proceeded
        /\ ariRenewalTime = Nil
        /\ request = Nil /\ certRes = Nil /\ saved = Nil
        /\ pc \in {"getARIRenewalTime", "needRenewal", "done"}
        /\ pc = "done" => outcome = "fatal"

C22_Witness ==
    /\ LeafIsCA
    /\ pc = "done"
    /\ outcome = "fatal"
    /\ ctx.days < 0
    /\ ctx.ari_enable
    /\ Len(certificates) = 1
    /\ ctx.csr

\* the place of each position in the text of renewForDomains / renewForCSR
Rank(p) ==
    CASE p = "renew" -> 0
      [] p = "readCSRFile" -> 1
      [] p = "ReadCertificate" -> 2
      [] p = "getARIRenewalTime" -> 3
      [] p = "Sleep" -> 4
      [] p = "needRenewal" -> 5
      [] p = "ReadFile" -> 6
      [] p = "randomSleep" -> 7
      [] p = "Obtain" -> 8
      [] p = "ObtainForCSR" -> 8
      [] p = "SaveResource" -> 9
      [] p = "UpdateRenewalInfo" -> 10
      [] p = "launchHook" -> 11
      [] p = "done" -> 12

\* the three ways a run ends: aborted on an error before anything was saved
\* (log.Fatal, or the error of the private key's parsing returned to the
\* caller), "no renewal needed", or the hook's result after the save
Aborted ==
    /\ saved = Nil
    /\ ~Called("launchHook")
    /\ \/ outcome = "fatal"
       \/ outcome = "err" /\ calls[Len(calls)].res = "parse errR"
EndedNoRenewal == NoRenewalNeeded /\ outcome = "nil"
EndedByHook ==
    /\ Len(calls) > 0
    /\ calls[Len(calls)].op = "launchHook"
    /\ outcome = calls[Len(calls)].res
    /\ saved /= Nil
    /\ Called("SaveResource")
EndedOnce ==
    Cardinality({k \in 1 .. 3 :
                   \/ k = 1 /\ Aborted
                   \/ k = 2 /\ EndedNoRenewal
                   \/ k = 3 /\ EndedByHook}) = 1

\* no step of the run has been executed twice
NoStepTwice ==
    /\ \A op \in {"GetRenewalInfo", "Sleep until renewal time", "needRenewal",
                   "ReadFile", "Sleep random delay", "SaveResource",
                   "UpdateRenewalInfo", "launchHook"} : Count(op) <= 1
    /\ Count("Obtain") + Count("ObtainForCSR") <= 1

\* C23: a run whose calls return and whose sleeps complete eventually ends,
\* in exactly one of the three terminal outcomes (aborted, "no renewal
\* needed", the hook's result after the save), and stays ended; every step
\* moves forward in the decision sequence, so there is no loop, and no ARI
\* lookup, obtain, save, report or hook launch happens twice.
C23_EndsOnce ==
    /\ <>(pc = "done")
    /\ [](pc = "done" => outcome /= "running" /\ EndedOnce)
    /\ [](pc /= "done" => outcome = "running")
    /\ [][Rank(pc') > Rank(pc) \/ UNCHANGED <<pc, outcome, calls>>]_vars
    /\ []NoStepTwice

C23_Witness ==
    /\ pc = "done"
    /\ EndedByHook
    /\ Count("GetRenewalInfo") = 1
    /\ Count("Sleep until renewal time") = 1
    /\ Count("Sleep random delay") = 1
    /\ Count("Obtain") = 1
    /\ Count("SaveResource") = 1
    /\ Count("UpdateRenewalInfo") = 1
    /\ Count("launchHook") = 1

====
